---- MODULE Spec2Model ----
(***************************************************************************)
(* Time-based failure pattern detection (time_unittest.py).                *)
(*                                                                         *)
(* A Pod is a record name/status/start_time/failure_time.  Timestamps and  *)
(* durations are integers in one common unit (seconds): datetime minus     *)
(* datetime is a signed timedelta, timedelta minus timedelta is a signed   *)
(* timedelta, abs and <= are those of the integers.  An Optional datetime  *)
(* is a sequence of length at most one: <<>> is None, <<t>> is the         *)
(* datetime t (a datetime is always truthy, so `if pod.failure_time` is    *)
(* the test "is not None").                                                *)
(*                                                                         *)
(* detect_time_failure_pattern is modelled twice from the same helpers:    *)
(* step by step (Call, LoopBody, Return), with the locals of the function  *)
(* as variables, and as the operator detect_time_failure_pattern that      *)
(* folds the same loop body over the list for a given clock reading.       *)
(***************************************************************************)
EXTENDS Integers, Sequences, FiniteSets

\* ------------------------------------------------------------------ bounds
MaxLen == 2

\* ------------------------------------------------------------- input sets
\* name is carried by every record and read by no line of the detector
Names == {"pod-1"}
TerminalStatuses == {"Failed", "Error", "CrashLoopBackOff"}
Statuses == TerminalStatuses \cup {"Running", "Pending"}
Times == 0 .. 1
Clock == 0 .. 2
Durations == -1 .. 1
None == <<>>
OptTimes == {None} \cup {<<t>> : t \in Times}

Pod(name, status, start_time, failure_time) ==
    [name |-> name, status |-> status,
     start_time |-> start_time, failure_time |-> failure_time]

Pods == [name : Names, status : Statuses, start_time : Times, failure_time : OptTimes]

PodLists == UNION {[1 .. n -> Pods] : n \in 0 .. MaxLen}

\* defaults of detect_time_failure_pattern, in seconds
default_expected_failure_time == 600
\* variant: the default tolerance taken as 30 minutes
default_tolerance_minutes == 30 * 60

default_tolerance == 30

\* ------------------------------------------------------------ pure helpers
Abs(x) == IF x < 0 THEN -x ELSE x

\* variant: the status test of the first branch left out
uptime_branch_any_status(pod) ==
    IF pod.failure_time # None
    THEN "failure"
    ELSE IF pod.status = "Running" THEN "running" ELSE "zero"

\* Pod.uptime: which of the three returns is taken
uptime_branch(pod) ==
    IF pod.failure_time # None /\ pod.status \in {"Failed", "Error", "CrashLoopBackOff"}
    THEN "failure"
    ELSE IF pod.status = "Running" THEN "running" ELSE "zero"

\* variant: a negative difference clamped to zero
Pod_uptime_clamped(pod, now) ==
    CASE uptime_branch(pod) = "failure" ->
            IF pod.failure_time[1] < pod.start_time
            THEN 0
            ELSE pod.failure_time[1] - pod.start_time
      [] uptime_branch(pod) = "running" -> now - pod.start_time
      [] OTHER -> 0

\* Pod.uptime: the value returned, now being what datetime.now() returns
Pod_uptime(pod, now) ==
    CASE uptime_branch(pod) = "failure" -> pod.failure_time[1] - pod.start_time
      [] uptime_branch(pod) = "running" -> now - pod.start_time
      [] OTHER -> 0

\* variants of the gate: no status test, no failure_time test, `or` for `and`
passes_gate_any_status(pod) == pod.failure_time # None

passes_gate_no_time(pod) == pod.status \in TerminalStatuses

passes_gate_or(pod) == pod.status \in TerminalStatuses \/ pod.failure_time # None

\* the condition of the loop's outer if
passes_gate(pod) == pod.status \in TerminalStatuses /\ pod.failure_time # None

\* variant: the signed difference, abs left out
time_diff_signed(up, expected_failure_time) == up - expected_failure_time

\* time_diff = abs(uptime - expected_failure_time)
time_diff_of(up, expected_failure_time) == Abs(up - expected_failure_time)

\* variant: exclusive boundary
within_tolerance_strict(diff, tol) == diff < tol

\* if time_diff <= tolerance
within_tolerance(diff, tol) == diff <= tol

\* variant: insert at the front
list_append_front(lst, pod) == <<pod>> \o lst

\* matching_pods.append(pod)
list_append(lst, pod) == Append(lst, pod)

\* variant: the loop stops one element early
has_next_short(idx, lst) == idx < Len(lst)

\* for pod in pods: is there an i-th element to visit
has_next(idx, lst) == idx <= Len(lst)

\* one pass of the loop body over pod, as a function of the list built so far
loop_body(acc, pod, expected_failure_time, tol, now) ==
    IF passes_gate(pod)
    THEN IF within_tolerance(time_diff_of(Pod_uptime(pod, now), expected_failure_time), tol)
         THEN list_append(acc, pod)
         ELSE acc
    ELSE acc

RECURSIVE detect_from(_, _, _, _, _, _)
detect_from(acc, idx, lst, expected_failure_time, tol, now) ==
    IF has_next(idx, lst)
    THEN detect_from(loop_body(acc, lst[idx], expected_failure_time, tol, now),
                     idx + 1, lst, expected_failure_time, tol, now)
    ELSE acc

\* the whole function, for the clock reading now
detect_time_failure_pattern(lst, expected_failure_time, tol, now) ==
    detect_from(<<>>, 1, lst, expected_failure_time, tol, now)

\* ------------------------------------------------------------------- state
VARIABLES
    pods,           \* argument pods
    expected,       \* argument expected_failure_time
    tolerance,      \* argument tolerance
    pc,             \* "call" | "loop" | "done"
    i,              \* position of the for loop (1-based, next to visit)
    matching_pods,  \* local matching_pods; the returned list once pc = "done"
    uptime,         \* local uptime (None before the first assignment)
    time_diff,      \* local time_diff (None before the first assignment)
    branches,       \* branches of Pod.uptime taken during the current call
    clock_reads,    \* number of datetime.now() reads during the current call
    calls,          \* number of calls started
    obs             \* last direct read of Pod.uptime: <<>> or <<[pod, now, value]>>

vars == <<pods, expected, tolerance, pc, i, matching_pods, uptime, time_diff,
          branches, clock_reads, calls, obs>>

Locals0 ==
    /\ pc = "call"
    /\ i = 0
    /\ matching_pods = <<>>
    /\ uptime = None
    /\ time_diff = None
    /\ branches = {}
    /\ clock_reads = 0
    /\ calls = 0
    /\ obs = <<>>

Init ==
    /\ pods \in PodLists
    /\ expected \in Durations
    /\ tolerance \in Durations
    /\ Locals0

\* entry of detect_time_failure_pattern: matching_pods = []
Call ==
    /\ pc = "call"
    /\ pc' = "loop"
    /\ i' = 1
    /\ matching_pods' = <<>>
    /\ uptime' = None
    /\ time_diff' = None
    /\ branches' = {}
    /\ clock_reads' = 0
    /\ calls' = calls + 1
    /\ UNCHANGED <<pods, expected, tolerance, obs>>

\* one iteration of `for pod in pods`
LoopBody ==
    /\ pc = "loop"
    /\ has_next(i, pods)
    /\ LET pod == pods[i] IN
        IF passes_gate(pod)
        THEN \E now \in Clock :
                LET up == Pod_uptime(pod, now)
                    diff == time_diff_of(up, expected)
                IN  /\ uptime' = <<up>>
                    /\ time_diff' = <<diff>>
                    /\ branches' = branches \cup {uptime_branch(pod)}
                    /\ clock_reads' = clock_reads +
                            (IF uptime_branch(pod) = "running" THEN 1 ELSE 0)
                    /\ matching_pods' = IF within_tolerance(diff, tolerance)
                                        THEN list_append(matching_pods, pod)
                                        ELSE matching_pods
        ELSE UNCHANGED <<uptime, time_diff, branches, clock_reads, matching_pods>>
    /\ i' = i + 1
    /\ UNCHANGED <<pods, expected, tolerance, pc, calls, obs>>

\* return matching_pods
Return ==
    /\ pc = "loop"
    /\ ~has_next(i, pods)
    /\ pc' = "done"
    /\ UNCHANGED <<pods, expected, tolerance, i, matching_pods, uptime, time_diff,
                   branches, clock_reads, calls, obs>>

\* the caller passes the returned list to a second call, same parameters
Reapply ==
    /\ pc = "done"
    /\ calls = 1
    /\ pods' = matching_pods
    /\ pc' = "call"
    /\ UNCHANGED <<expected, tolerance, i, matching_pods, uptime, time_diff,
                   branches, clock_reads, calls, obs>>

Next == Call \/ LoopBody \/ Return \/ Reapply

Spec == Init /\ [][Next]_vars

\* --------------------------------------------- direct reads of Pod.uptime
\* a caller reads the property uptime of one pod of the list
ReadUptime ==
    /\ pc = "call"
    /\ obs = <<>>
    /\ \E k \in 1 .. Len(pods) : \E now \in Clock :
            obs' = <<[pod |-> pods[k], now |-> now, value |-> Pod_uptime(pods[k], now)]>>
    /\ UNCHANGED <<pods, expected, tolerance, pc, i, matching_pods, uptime, time_diff,
                   branches, clock_reads, calls>>

InitUptime ==
    /\ pods \in PodLists
    /\ expected = default_expected_failure_time
    /\ tolerance = default_tolerance
    /\ Locals0

NextUptime == ReadUptime

SpecUptime == InitUptime /\ [][NextUptime]_vars

\* ------------------------------------------- calls with the default arguments
BaseTimes == {1000, 2000}

\* the uptimes the scenario states: 11min, 10min15s, 9min45s
ScenarioUptimes == <<660, 615, 585>>

\* test_detect_pods_failing_at_10_minutes: start_time = base_time - StartOffsets[k],
\* failure_time = base_time + FailureOffsets[k]
StartOffsets == <<660, 615, 585>>
FailureOffsets == <<-60, -15, 15>>

PodName(k) == <<"pod-1", "pod-2", "pod-3">>[k]

\* three failed pods started at base whose uptimes are ScenarioUptimes
UptimePods(base, sts) ==
    [k \in 1 .. 3 |-> Pod(PodName(k), sts[k], base, <<base + ScenarioUptimes[k]>>)]

\* the three pods of the test, for base_time = base
TestPods(base, sts) ==
    [k \in 1 .. 3 |->
        Pod(PodName(k), sts[k], base - StartOffsets[k], <<base + FailureOffsets[k]>>)]

InitDefaults ==
    /\ \E base \in BaseTimes : \E sts \in [1 .. 3 -> TerminalStatuses] :
            pods \in {UptimePods(base, sts), TestPods(base, sts)}
    /\ expected = default_expected_failure_time
    /\ tolerance = default_tolerance
    /\ Locals0

NextDefaults == Call \/ LoopBody \/ Return

SpecDefaults == InitDefaults /\ [][NextDefaults]_vars

\* ------------------------------------------------------------ properties
\* the terminal-failure states as the specification lists them
FailureStates == {"Failed", "Error", "CrashLoopBackOff"}

InSeq(x, seq) == \E j \in 1 .. Len(seq) : seq[j] = x

\* sub is seq with some elements left out, the others in their order
IsSubseq(sub, seq) ==
    \E f \in [1 .. Len(sub) -> 1 .. Len(seq)] :
        /\ \A a, b \in 1 .. Len(sub) : a < b => f[a] < f[b]
        /\ \A a \in 1 .. Len(sub) : seq[f[a]] = sub[a]

\* a call has started and its list is being built or has been returned
InCall == pc \in {"loop", "done"}

\* failureTime - startTime of an instance whose failureTime is present
Lifetime(p) == p.failure_time[1] - p.start_time

\* the instance matches the pattern as the specification states it
Matches(p) ==
    /\ p.status \in FailureStates
    /\ p.failure_time # None
    /\ Abs(Lifetime(p) - expected) <= tolerance

\* C1: when the call has returned, an instance of the input is in the result
\* if and only if its status is Failed, Error or CrashLoopBackOff, its
\* failureTime is present and |(failureTime - startTime) - expectedFailureTime|
\* <= tolerance, a deviation equal to tolerance included.
C1_MatchIff ==
    pc = "done" =>
        \A k \in 1 .. Len(pods) : InSeq(pods[k], matching_pods) <=> Matches(pods[k])

\* a returned call with one instance kept at deviation = tolerance and one
\* instance dropped at deviation > tolerance
C1_Witness ==
    /\ pc = "done"
    /\ calls = 1
    /\ Len(pods) = 2
    /\ \E k, m \in 1 .. 2 :
        /\ pods[k].status \in FailureStates /\ pods[k].failure_time # None
        /\ Abs(Lifetime(pods[k]) - expected) = tolerance
        /\ InSeq(pods[k], matching_pods)
        /\ pods[m].status \in FailureStates /\ pods[m].failure_time # None
        /\ Abs(Lifetime(pods[m]) - expected) > tolerance
        /\ ~InSeq(pods[m], matching_pods)

\* a step of a call keeps the input and builds a sub-sequence of it
C2_Step ==
    pc \in {"call", "loop"} => (pods' = pods /\ IsSubseq(matching_pods', pods'))

\* C2: from the entry of a call to its return no step changes the input
\* sequence or a field of one of its instances, and the list built is at
\* every step a sub-sequence of the input (retained instances in input order,
\* none more often than in the input).
C2_SubsequenceFrame == [][C2_Step]_vars

\* a returned call that kept two different instances, in input order
C2_Witness ==
    /\ pc = "done"
    /\ calls = 1
    /\ Len(pods) = 2
    /\ pods[1] # pods[2]
    /\ matching_pods = pods

\* C3: an instance whose status is not Failed, Error or CrashLoopBackOff is
\* never in the list built, whatever its timestamps.
C3_StatusGate ==
    InCall =>
        \A k \in 1 .. Len(pods) :
            pods[k].status \notin FailureStates => ~InSeq(pods[k], matching_pods)

\* a returned call whose input holds a Running instance with failureTime
\* present, its failureTime - startTime and its elapsed time both within
\* tolerance, left out while another instance is kept
C3_Witness ==
    /\ pc = "done"
    /\ calls = 1
    /\ Len(matching_pods) = 1
    /\ \E k \in 1 .. Len(pods) :
        /\ pods[k].status = "Running"
        /\ pods[k].failure_time # None
        /\ Abs(Lifetime(pods[k]) - expected) <= tolerance
        /\ \E now \in Clock : Abs((now - pods[k].start_time) - expected) <= tolerance
        /\ ~InSeq(pods[k], matching_pods)

\* C4: an instance with a terminal-failure status and no failureTime is
\* never in the list built, for every expectedFailureTime and tolerance.
C4_MissingFailureTimeGate ==
    InCall =>
        \A k \in 1 .. Len(pods) :
            (pods[k].status \in FailureStates /\ pods[k].failure_time = None)
                => ~InSeq(pods[k], matching_pods)

\* a returned call with expectedFailureTime = 0, where the zero uptime of a
\* failed instance without failureTime lies within tolerance, and it is left
\* out while another instance is kept
C4_Witness ==
    /\ pc = "done"
    /\ calls = 1
    /\ expected = 0
    /\ tolerance >= 0
    /\ Len(matching_pods) = 1
    /\ \E k \in 1 .. Len(pods) :
        /\ pods[k].status \in FailureStates
        /\ pods[k].failure_time = None
        /\ ~InSeq(pods[k], matching_pods)

\* the input is three terminal-failure instances with failureTime present
\* whose uptimes are 11min, 10min15s and 9min45s
HasScenarioUptimes ==
    /\ Len(pods) = 3
    /\ \A k \in 1 .. 3 :
        /\ pods[k].status \in FailureStates
        /\ pods[k].failure_time # None
        /\ Lifetime(pods[k]) = <<11 * 60, 10 * 60 + 15, 9 * 60 + 45>>[k]

\* the input is three terminal-failure instances with failureTime present
\* whose uptimes are all 10min
HasTenMinuteUptimes ==
    /\ Len(pods) = 3
    /\ \A k \in 1 .. 3 :
        /\ pods[k].status \in FailureStates
        /\ pods[k].failure_time # None
        /\ Lifetime(pods[k]) = 10 * 60

DefaultArguments == expected = 10 * 60 /\ tolerance = 30

\* C5 as stated: with the defaults, the three instances of uptimes 11min,
\* 10min15s and 9min45s are all returned.
C5_AllThreeMatch ==
    (pc = "done" /\ DefaultArguments /\ HasScenarioUptimes) => Len(matching_pods) = 3

\* C5 amended: a call that leaves expectedFailureTime and tolerance to
\* their defaults returns, of three terminal-failure instances of uptimes
\* 11min, 10min15s and 9min45s, exactly the second and the third; three
\* instances of uptime 10min are all returned.
C5_TwoOfThreeMatch ==
    pc = "done" =>
        /\ HasScenarioUptimes => matching_pods = <<pods[2], pods[3]>>
        /\ HasTenMinuteUptimes => matching_pods = pods

\* a returned default call on the uptimes 11min, 10min15s, 9min45s
C5_Witness ==
    /\ pc = "done"
    /\ DefaultArguments
    /\ HasScenarioUptimes
    /\ Len(matching_pods) = 2

\* C6: the value read from uptime is failureTime - startTime when the status
\* is a terminal failure and failureTime is present; else current time -
\* startTime when the status is Running; else zero.
C6_UptimeThreeWay ==
    obs # <<>> =>
        LET p == obs[1].pod IN
            obs[1].value =
                IF p.status \in FailureStates /\ p.failure_time # None
                THEN Lifetime(p)
                ELSE IF p.status = "Running"
                     THEN obs[1].now - p.start_time
                     ELSE 0

\* a read of the uptime of a Running instance that has a failureTime, the
\* elapsed time differing from failureTime - startTime
C6_Witness ==
    /\ obs # <<>>
    /\ obs[1].pod.status = "Running"
    /\ obs[1].pod.failure_time # None
    /\ obs[1].value = obs[1].now - obs[1].pod.start_time
    /\ obs[1].value # Lifetime(obs[1].pod)

\* the instance the loop visited last
Visited == pods[i - 1]

\* C7: after the loop visits a terminal-failure instance whose failureTime
\* is earlier than its startTime, the uptime computed is the negative
\* failureTime - startTime, and the instance is in the list built exactly
\* when |uptime - expectedFailureTime| <= tolerance for that negative uptime.
C7_NegativeUptime ==
    (InCall /\ i > 1) =>
        ((Visited.status \in FailureStates /\ Visited.failure_time # None
                /\ Visited.failure_time[1] < Visited.start_time)
            => /\ uptime = <<Lifetime(Visited)>>
               /\ uptime[1] < 0
               /\ InSeq(Visited, matching_pods)
                    <=> Abs(uptime[1] - expected) <= tolerance)

\* a returned call with expectedFailureTime = 0 that kept an instance of
\* uptime -1 under tolerance 1
C7_Witness ==
    /\ pc = "done"
    /\ calls = 1
    /\ expected = 0
    /\ tolerance = 1
    /\ i > 1
    /\ Visited.status \in FailureStates
    /\ Visited.failure_time # None
    /\ uptime = <<-1>>
    /\ Lifetime(Visited) = -1
    /\ InSeq(Visited, matching_pods)

\* C8: during a call every evaluation of uptime takes the failureTime -
\* startTime branch, the clock is never read, and the list returned is the
\* one the function yields for every value of the current time.
C8_ClockIndependent ==
    /\ branches \subseteq {"failure"}
    /\ clock_reads = 0
    /\ pc = "done" =>
        \A now \in Clock :
            matching_pods = detect_time_failure_pattern(pods, expected, tolerance, now)

\* a returned call that evaluated uptime for one instance and whose input
\* also holds a Running instance
C8_Witness ==
    /\ pc = "done"
    /\ calls = 1
    /\ branches = {"failure"}
    /\ \E k \in 1 .. Len(pods) : pods[k].status = "Running"

\* C9: with a negative tolerance the list built is empty for every input
\* and every expectedFailureTime; a negative expectedFailureTime enters the
\* deviation as it is.
C9_NegativeParameters ==
    InCall =>
        /\ tolerance < 0 => matching_pods = <<>>
        /\ (expected < 0 /\ i > 1 /\ Visited.status \in FailureStates
                /\ Visited.failure_time # None)
            => time_diff = <<Abs(Lifetime(Visited) - expected)>>

\* a returned call with negative tolerance and negative expectedFailureTime
\* on an instance of deviation zero, nothing returned
C9_Witness ==
    /\ pc = "done"
    /\ calls = 1
    /\ tolerance < 0
    /\ expected < 0
    /\ i > 1
    /\ Visited.status \in FailureStates
    /\ Visited.failure_time # None
    /\ Lifetime(Visited) = expected
    /\ time_diff = <<0>>
    /\ matching_pods = <<>>

\* C10: the second call, applied to the list the first call returned with
\* the same parameters, returns a list equal to its input.
C10_Idempotent ==
    (pc = "done" /\ calls = 2) => matching_pods = pods

\* a returned second call on a first result of two different instances
C10_Witness ==
    /\ pc = "done"
    /\ calls = 2
    /\ Len(pods) = 2
    /\ pods[1] # pods[2]
    /\ Len(matching_pods) = 2

====
